---- MODULE Spec2Model ----
(***************************************************************************)
(* Model of src/events/cloudw.py: the CloudWatch alarm report.             *)
(*                                                                         *)
(*   raw history items --parse_history_event--> events                     *)
(*   events --build_alarm_episodes--> episodes clipped to the window       *)
(*   episodes --episodes_to_daily_stats--> one row per UTC day             *)
(*   main: the three steps, once per lookback window of --days             *)
(*                                                                         *)
(* Instants are integers, seconds since an epoch at 00:00 UTC.  A Python   *)
(* None is the empty tuple, a present value x is the 1-tuple <<x>>.  A      *)
(* float is an exact fraction [n, d] in lowest terms (rounding of the      *)
(* IEEE arithmetic is not modelled).                                       *)
(*                                                                         *)
(* Three specifications share the variables:                               *)
(*   SpecBuild  build_alarm_episodes on its own, statement by statement    *)
(*   SpecStats  episodes_to_daily_stats on its own, statement by statement *)
(*   Spec       main's loop over the windows, with the paginated fetch     *)
(***************************************************************************)
EXTENDS Integers, Sequences, FiniteSets, TLC

VARIABLES
    pc,                          \* position in the function being run
    now, days, n_idx,            \* main: utc_now(), args.days, loop position
    window_start, window_end,    \* the window of the current call
    start_day, end_day,          \* the day range of the current call
    next_token,                  \* fetch_alarm_state_updates: next_token
    delivered,                   \* raw items received for the current window
    events,                      \* List[AlarmEvent]
    assume_state_before_window,  \* build_alarm_episodes: its last parameter
    idx,                         \* position of the running for loop
    current_state,               \* build_alarm_episodes: current_state
    current_alarm_start,         \* build_alarm_episodes: current_alarm_start
    episodes,                    \* build_alarm_episodes: episodes (unclipped)
    clipped,                     \* build_alarm_episodes: clipped (returned)
    per_day,                     \* episodes_to_daily_stats: per_day
    rows,                        \* episodes_to_daily_stats: rows
    sections_out,                \* main: sections_out
    history,                     \* the alarm history CloudWatch holds
    max_attempts, attempt,       \* retryable_call: max_attempts, attempt
    fn_calls,                    \* retryable_call: what each call of fn did
    outcome,                     \* retryable_call: returned value or raised error
    slept                        \* retryable_call: the time.sleep calls

vars == <<pc, now, days, n_idx, window_start, window_end, start_day, end_day,
          next_token, delivered, events, assume_state_before_window, idx,
          current_state, current_alarm_start, episodes, clipped, per_day,
          rows, sections_out, history, max_attempts, attempt, fn_calls,
          outcome, slept>>

\* The variables of retryable_call.
retry_vars == <<max_attempts, attempt, fn_calls, outcome, slept>>

-----------------------------------------------------------------------------
(* Bounds of the model.                                                    *)

\* Instants are drawn from the grid 0, GridStep, ..., MaxTick * GridStep.
GridStep == 57600
MaxTick == 3
\* Longest event list given to build_alarm_episodes in SpecBuild.
MaxEvents == 3
\* Longest episode list given to episodes_to_daily_stats in SpecStats.
MaxEpisodes == 2
\* Most raw items the history API delivers for one window in Spec.
MaxItems == 2
\* Largest lookback, in days, of a window in Spec.
MaxLookback == 1
\* Largest max_attempts given to retryable_call in SpecRetry.
MaxAttempts == 6

(* Program constants.                                                      *)
SecondsPerDay == 86400
SecondsPerMinute == 60

Times == {k * GridStep : k \in 0..MaxTick}

-----------------------------------------------------------------------------
(* Python values.                                                          *)

None == <<>>
Some(x) == <<x>>

Max(a, b) == IF a >= b THEN a ELSE b
Min(a, b) == IF a <= b THEN a ELSE b

\* datetime.date(): the UTC calendar day of an instant, as a day number.
DateOf(t) == t \div SecondsPerDay

Abs(x) == IF x < 0 THEN -x ELSE x

RECURSIVE Gcd(_, _)
Gcd(a, b) == IF b = 0 THEN a ELSE Gcd(b, a % b)

\* The float n / d (d > 0), as a fraction in lowest terms.
Frac(n, d) ==
    LET g == Gcd(Abs(n), d)
    IN  [n |-> n \div g, d |-> d \div g]

FracAdd(x, y) == Frac(x.n * y.d + y.n * x.d, x.d * y.d)

\* sum(durations) of a list of floats, starting from 0.
RECURSIVE FracSum(_)
FracSum(s) ==
    IF s = <<>> THEN Frac(0, 1)
    ELSE FracAdd(FracSum(SubSeq(s, 1, Len(s) - 1)), s[Len(s)])

\* float / int
FracDivInt(x, k) == Frac(x.n, x.d * k)

\* Mutant: `while cur < end_day`, the range without its last day.
daterange_Exclusive(sd, ed) == [i \in 1..(ed - sd) |-> sd + i - 1]

\* Mutant: cur starts at start_day + 1, the range without its first day.
daterange_SkipFirst(sd, ed) == [i \in 1..(ed - sd) |-> sd + i]

\* daterange(start_day, end_day): the days from start_day to end_day, both
\* included, in ascending order; empty when start_day > end_day.
RECURSIVE daterange(_, _)
daterange(sd, ed) ==
    IF sd <= ed THEN <<sd>> \o daterange(sd + 1, ed) ELSE <<>>

AlarmEvent(ts, ns, os) == [ts |-> ts, new_state |-> ns, old_state |-> os]
AlarmEpisode(s, e) == [start |-> s, end |-> e]

-----------------------------------------------------------------------------
(* build_alarm_episodes                                                    *)

\* Mutant: the loop body without its last statement, current_state = ns.
ScanStep_NoStateUpdate(st, ev) ==
    LET ns == ev.new_state
    IN  IF ns = None THEN st
        ELSE IF ns = Some("ALARM")
        THEN [st EXCEPT !.current_alarm_start =
                  IF st.current_state # Some("ALARM") THEN Some(ev.ts) ELSE @]
        ELSE IF st.current_state = Some("ALARM") /\ st.current_alarm_start # None
        THEN [st EXCEPT !.current_alarm_start = None,
                        !.episodes = Append(@, AlarmEpisode(st.current_alarm_start[1],
                                                            ev.ts))]
        ELSE st

\* Mutant: every ALARM event sets current_alarm_start, also inside ALARM.
ScanStep_Restart(st, ev) ==
    LET ns == ev.new_state
    IN  IF ns = None THEN st
        ELSE IF ns = Some("ALARM")
        THEN [current_state |-> ns,
              current_alarm_start |-> Some(ev.ts),
              episodes |-> st.episodes]
        ELSE IF st.current_state = Some("ALARM") /\ st.current_alarm_start # None
        THEN [current_state |-> ns,
              current_alarm_start |-> None,
              episodes |-> Append(st.episodes,
                                  AlarmEpisode(st.current_alarm_start[1], ev.ts))]
        ELSE [current_state |-> ns,
              current_alarm_start |-> st.current_alarm_start,
              episodes |-> st.episodes]

\* Mutant: an event without new_state is not skipped, it counts as a state
\* that is not ALARM.
ScanStep_NoSkip(st, ev) ==
    LET ns == ev.new_state
    IN  IF ns = Some("ALARM")
        THEN [current_state |-> ns,
              current_alarm_start |->
                  IF st.current_state # Some("ALARM") THEN Some(ev.ts)
                  ELSE st.current_alarm_start,
              episodes |-> st.episodes]
        ELSE IF st.current_state = Some("ALARM") /\ st.current_alarm_start # None
        THEN [current_state |-> ns,
              current_alarm_start |-> None,
              episodes |-> Append(st.episodes,
                                  AlarmEpisode(st.current_alarm_start[1], ev.ts))]
        ELSE [current_state |-> ns,
              current_alarm_start |-> st.current_alarm_start,
              episodes |-> st.episodes]

\* Mutant: only OK leaves ALARM (ns == "OK" in place of the else).
ScanStep_OnlyOkCloses(st, ev) ==
    LET ns == ev.new_state
    IN  IF ns = None THEN st
        ELSE IF ns = Some("ALARM")
        THEN [current_state |-> ns,
              current_alarm_start |->
                  IF st.current_state # Some("ALARM") THEN Some(ev.ts)
                  ELSE st.current_alarm_start,
              episodes |-> st.episodes]
        ELSE IF ns = Some("OK") /\ st.current_state = Some("ALARM")
                /\ st.current_alarm_start # None
        THEN [current_state |-> ns,
              current_alarm_start |-> None,
              episodes |-> Append(st.episodes,
                                  AlarmEpisode(st.current_alarm_start[1], ev.ts))]
        ELSE IF ns = Some("OK")
        THEN [current_state |-> ns,
              current_alarm_start |-> st.current_alarm_start,
              episodes |-> st.episodes]
        ELSE st

\* Mutant: leaving ALARM appends the episode but keeps current_state and
\* current_alarm_start as they were.
ScanStep_NoReset(st, ev) ==
    LET ns == ev.new_state
    IN  IF ns = None THEN st
        ELSE IF ns = Some("ALARM")
        THEN [current_state |-> ns,
              current_alarm_start |->
                  IF st.current_state # Some("ALARM") THEN Some(ev.ts)
                  ELSE st.current_alarm_start,
              episodes |-> st.episodes]
        ELSE IF st.current_state = Some("ALARM") /\ st.current_alarm_start # None
        THEN [current_state |-> st.current_state,
              current_alarm_start |-> st.current_alarm_start,
              episodes |-> Append(st.episodes,
                                  AlarmEpisode(st.current_alarm_start[1], ev.ts))]
        ELSE [current_state |-> ns,
              current_alarm_start |-> st.current_alarm_start,
              episodes |-> st.episodes]

\* Mutant: an event that names its old_state is compared with it, not with
\* current_state.
ScanStep_TrustOldState(st, ev) ==
    LET ns == ev.new_state
        before == IF ev.old_state # None THEN ev.old_state ELSE st.current_state
    IN  IF ns = None THEN st
        ELSE IF ns = Some("ALARM")
        THEN [current_state |-> ns,
              current_alarm_start |->
                  IF before # Some("ALARM") THEN Some(ev.ts)
                  ELSE st.current_alarm_start,
              episodes |-> st.episodes]
        ELSE IF before = Some("ALARM") /\ st.current_alarm_start # None
        THEN [current_state |-> ns,
              current_alarm_start |-> None,
              episodes |-> Append(st.episodes,
                                  AlarmEpisode(st.current_alarm_start[1], ev.ts))]
        ELSE [current_state |-> ns,
              current_alarm_start |-> st.current_alarm_start,
              episodes |-> st.episodes]

\* The body of the loop over the events, on the scan state
\* st = [current_state, current_alarm_start, episodes].
ScanStep(st, ev) ==
    LET ns == ev.new_state
    IN  IF ns = None THEN st
        ELSE IF ns = Some("ALARM")
        THEN [current_state |-> ns,
              current_alarm_start |->
                  IF st.current_state # Some("ALARM") THEN Some(ev.ts)
                  ELSE st.current_alarm_start,
              episodes |-> st.episodes]
        ELSE IF st.current_state = Some("ALARM") /\ st.current_alarm_start # None
        THEN [current_state |-> ns,
              current_alarm_start |-> None,
              episodes |-> Append(st.episodes,
                                  AlarmEpisode(st.current_alarm_start[1], ev.ts))]
        ELSE [current_state |-> ns,
              current_alarm_start |-> st.current_alarm_start,
              episodes |-> st.episodes]

\* Mutant: the open episode is closed at its own start, not at window_end.
CloseOpenEpisode_AtStart(st, we) ==
    IF st.current_state = Some("ALARM") /\ st.current_alarm_start # None
    THEN Append(st.episodes, AlarmEpisode(st.current_alarm_start[1],
                                          st.current_alarm_start[1]))
    ELSE st.episodes

\* After the loop: an episode still open is closed at window_end.
CloseOpenEpisode(st, we) ==
    IF st.current_state = Some("ALARM") /\ st.current_alarm_start # None
    THEN Append(st.episodes, AlarmEpisode(st.current_alarm_start[1], we))
    ELSE st.episodes

\* Mutant: only the end is clipped, s = ep.start.
ClipOne_EndOnly(ep, ws, we) == AlarmEpisode(ep.start, Min(ep.end, we))

\* One episode clipped to the window.
ClipOne(ep, ws, we) == AlarmEpisode(Max(ep.start, ws), Min(ep.end, we))

\* Mutant: e >= s where the code has e > s.
KeepClipped_Weak(c) == c.end >= c.start

\* Mutant: every clipped episode is kept.
KeepClipped_All(c) == TRUE

\* An episode survives the clipping when it keeps a positive length.
KeepClipped(c) == c.end > c.start

\* The clipping loop over the episodes.
RECURSIVE ClipEpisodes(_, _, _)
ClipEpisodes(eps, ws, we) ==
    IF eps = <<>> THEN <<>>
    ELSE LET c == ClipOne(Head(eps), ws, we)
         IN  (IF KeepClipped(c) THEN <<c>> ELSE <<>>)
                 \o ClipEpisodes(Tail(eps), ws, we)

\* Mutant: a scan with no assumed state starts in ALARM.
ScanInit_StartInAlarm(assume) ==
    [current_state |-> Some("ALARM"), current_alarm_start |-> None,
     episodes |-> <<>>]

\* Mutant: the scan starts inside an episode open since the epoch.
ScanInit_OpenAtEpoch(assume) ==
    [current_state |-> Some("ALARM"), current_alarm_start |-> Some(0),
     episodes |-> <<>>]

ScanInit(assume) ==
    [current_state |-> assume, current_alarm_start |-> None, episodes |-> <<>>]

RECURSIVE ScanAll(_, _)
ScanAll(st, evs) ==
    IF evs = <<>> THEN st ELSE ScanAll(ScanStep(st, Head(evs)), Tail(evs))

\* build_alarm_episodes(events, window_start, window_end, assume) as a function.
BuildAlarmEpisodes(evs, ws, we, assume) ==
    ClipEpisodes(CloseOpenEpisode(ScanAll(ScanInit(assume), evs), we), ws, we)

-----------------------------------------------------------------------------
(* episodes_to_daily_stats                                                 *)

\* per_day = {d: [] for d in daterange(start_day, end_day)}
PerDayInit(sd, ed) == [d \in sd..ed |-> <<>>]

\* Mutant: the episode goes to the day it ended on.
BucketStep_ByEndDay(pd, ep, sd, ed) ==
    LET d == DateOf(ep.end)
    IN  IF d < sd \/ d > ed THEN pd
        ELSE [pd EXCEPT ![d] = Append(@, Frac(ep.end - ep.start, SecondsPerMinute))]

\* Mutant: an episode that ends on a later day than it starts is left out.
BucketStep_SameDayOnly(pd, ep, sd, ed) ==
    LET d == DateOf(ep.start)
    IN  IF d < sd \/ d > ed \/ DateOf(ep.end) # d THEN pd
        ELSE [pd EXCEPT ![d] = Append(@, Frac(ep.end - ep.start, SecondsPerMinute))]

\* The body of the loop over the episodes.
BucketStep(pd, ep, sd, ed) ==
    LET d == DateOf(ep.start)
    IN  IF d < sd \/ d > ed THEN pd
        ELSE [pd EXCEPT ![d] = Append(@, Frac(ep.end - ep.start, SecondsPerMinute))]

\* Mutant: a day without episodes reports the average 0.0, not None.
RowOf_ZeroAverage(d, durations) ==
    IF durations = <<>>
    THEN [day |-> d, count |-> 0, avg |-> Some(Frac(0, 1))]
    ELSE [day |-> d, count |-> Len(durations),
          avg |-> Some(FracDivInt(FracSum(durations), Len(durations)))]

\* The row of one day: (day, count, average or None).
RowOf(d, durations) ==
    IF durations = <<>>
    THEN [day |-> d, count |-> 0, avg |-> None]
    ELSE [day |-> d, count |-> Len(durations),
          avg |-> Some(FracDivInt(FracSum(durations), Len(durations)))]

\* The loop that builds the rows.
BuildRows(pd, sd, ed) ==
    LET ds == daterange(sd, ed)
    IN  [i \in 1..Len(ds) |-> RowOf(ds[i], pd[ds[i]])]

RECURSIVE BucketAll(_, _, _, _)
BucketAll(pd, eps, sd, ed) ==
    IF eps = <<>> THEN pd
    ELSE BucketAll(BucketStep(pd, Head(eps), sd, ed), Tail(eps), sd, ed)

\* episodes_to_daily_stats(episodes, start_day, end_day) as a function.
EpisodesToDailyStats(eps, sd, ed) ==
    BuildRows(BucketAll(PerDayInit(sd, ed), eps, sd, ed), sd, ed)

-----------------------------------------------------------------------------
(* parse_history_event                                                     *)

\* HistoryData that json.loads turns into an object.  newState and oldState
\* are None (key absent or null) or <<[is_dict, stateValue]>>; the flat keys
\* are None or a string.
JsonObject(ns, os, nsv, sv, osv) ==
    [text |-> "object", newState |-> ns, oldState |-> os,
     newStateValue |-> nsv, stateValue |-> sv, oldStateValue |-> osv]

\* HistoryData that is the empty string, that json.loads rejects, or that
\* decodes to something that is no object.
JsonOther(text) ==
    [text |-> text, newState |-> None, oldState |-> None,
     newStateValue |-> None, stateValue |-> None, oldStateValue |-> None]

Nested(v) == Some([is_dict |-> TRUE, stateValue |-> v])
NotAnObject == Some([is_dict |-> FALSE, stateValue |-> None])

\* Python truth of a value that is None or a string.
Falsy(v) == v = None \/ v = Some("")

\* Mutant: the operands of `or` swapped.
PyOr_RightFirst(x, y) == IF Falsy(y) THEN x ELSE y

\* x or y
PyOr(x, y) == IF Falsy(x) THEN y ELSE x

\* Mutant: an item without Timestamp yields an event at the epoch.
ParseHistoryEvent_EpochDefault(item) ==
    Some(AlarmEvent(IF item.Timestamp = None THEN 0 ELSE item.Timestamp[1],
                    IF item.HistoryData = None \/ item.HistoryData[1].text # "object"
                        \/ item.HistoryData[1].newState = None
                    THEN None ELSE item.HistoryData[1].newState[1].stateValue,
                    IF item.HistoryData = None \/ item.HistoryData[1].text # "object"
                        \/ item.HistoryData[1].oldState = None
                    THEN None ELSE item.HistoryData[1].oldState[1].stateValue))

\* Mutant: the except branch returns None (the item is dropped).
ParseHistoryEvent_DropInvalid(item) ==
    IF item.Timestamp = None THEN None
    ELSE
    LET ts == item.Timestamp[1]
        hd == item.HistoryData
    IN  IF hd = None \/ hd[1].text = "empty"
        THEN Some(AlarmEvent(ts, None, None))
        ELSE IF hd[1].text = "invalid"
        THEN None
        ELSE
        LET data    == hd[1]
            is_obj  == data.text = "object"
            ns      == IF is_obj THEN data.newState ELSE None
            os      == IF is_obj THEN data.oldState ELSE None
            nested_new == IF ns # None /\ ns[1].is_dict
                          THEN ns[1].stateValue ELSE None
            nested_old == IF os # None /\ os[1].is_dict
                          THEN os[1].stateValue ELSE None
            new_state == IF nested_new = None /\ is_obj
                         THEN PyOr(data.newStateValue, data.stateValue)
                         ELSE nested_new
            old_state == IF nested_old = None /\ is_obj
                         THEN data.oldStateValue
                         ELSE nested_old
        IN  Some(AlarmEvent(ts, new_state, old_state))

\* parse_history_event(history_item): None, or <<the event>>.
ParseHistoryEvent(item) ==
    IF item.Timestamp = None THEN None
    ELSE
    LET ts == item.Timestamp[1]
        hd == item.HistoryData
    IN  IF hd = None \/ hd[1].text = "empty"
        THEN Some(AlarmEvent(ts, None, None))
        ELSE IF hd[1].text = "invalid"
        THEN Some(AlarmEvent(ts, None, None))
        ELSE
        LET data    == hd[1]
            is_obj  == data.text = "object"
            ns      == IF is_obj THEN data.newState ELSE None
            os      == IF is_obj THEN data.oldState ELSE None
            nested_new == IF ns # None /\ ns[1].is_dict
                          THEN ns[1].stateValue ELSE None
            nested_old == IF os # None /\ os[1].is_dict
                          THEN os[1].stateValue ELSE None
            new_state == IF nested_new = None /\ is_obj
                         THEN PyOr(data.newStateValue, data.stateValue)
                         ELSE nested_new
            old_state == IF nested_old = None /\ is_obj
                         THEN data.oldStateValue
                         ELSE nested_old
        IN  Some(AlarmEvent(ts, new_state, old_state))

-----------------------------------------------------------------------------
(* fetch_alarm_state_updates                                               *)

\* The for loop over the items of one page: the events of the items that
\* parse, appended in the order of the page.
RECURSIVE ParseItems(_)
ParseItems(items) ==
    IF items = <<>> THEN <<>>
    ELSE LET ev == ParseHistoryEvent(Head(items))
         IN  (IF ev # None THEN <<ev[1]>> ELSE <<>>) \o ParseItems(Tail(items))

\* Mutant: a sort that is not stable, e goes before the elements of equal
\* key.
RECURSIVE InsertByTs_Unstable(_, _)
InsertByTs_Unstable(sorted, e) ==
    IF sorted = <<>> THEN <<e>>
    ELSE IF sorted[Len(sorted)].ts < e.ts THEN Append(sorted, e)
    ELSE Append(InsertByTs_Unstable(SubSeq(sorted, 1, Len(sorted) - 1), e),
                sorted[Len(sorted)])

\* list.sort(key=lambda e: e.ts) is stable: e goes behind every element
\* whose key is not larger.
RECURSIVE InsertByTs(_, _)
InsertByTs(sorted, e) ==
    IF sorted = <<>> THEN <<e>>
    ELSE IF sorted[Len(sorted)].ts <= e.ts THEN Append(sorted, e)
    ELSE Append(InsertByTs(SubSeq(sorted, 1, Len(sorted) - 1), e),
                sorted[Len(sorted)])

\* Mutant: the events are returned in the order of arrival.
SortByTs_Missing(evs) == evs

\* Mutant: the list is returned reversed, not sorted.
SortByTs_Reversed(evs) == [i \in 1..Len(evs) |-> evs[Len(evs) + 1 - i]]

RECURSIVE SortByTs(_)
SortByTs(evs) ==
    IF evs = <<>> THEN <<>>
    ELSE InsertByTs(SortByTs(SubSeq(evs, 1, Len(evs) - 1)), evs[Len(evs)])

\* What fetch_alarm_state_updates returns when the pages it received hold
\* the raw items `items`, in that order.
FetchResult(items) == SortByTs(ParseItems(items))

-----------------------------------------------------------------------------
(* Inputs.                                                                 *)

\* The values of new_state of the events given to build_alarm_episodes.
NewStates == {None, Some("ALARM"), Some("OK"), Some("INSUFFICIENT_DATA")}
\* build_alarm_episodes never reads old_state.
OldStates == {None}

EventChoices == {AlarmEvent(t, ns, os) : t \in Times, ns \in NewStates, os \in OldStates}

SeqsUpTo(S, n) == UNION {[1..k -> S] : k \in 0..n}

\* main gives build_alarm_episodes the list fetch_alarm_state_updates sorted.
Ascending(evs) == \A i \in 1..(Len(evs) - 1) : evs[i].ts <= evs[i + 1].ts

EventLists == {evs \in SeqsUpTo(EventChoices, MaxEvents) : Ascending(evs)}

AssumedStates == {None, Some("ALARM")}

EpisodeChoices == {AlarmEpisode(s, e) : s \in Times, e \in Times}

EpisodeLists == SeqsUpTo({ep \in EpisodeChoices : ep.start <= ep.end}, MaxEpisodes)

Days == {DateOf(t) : t \in Times}

\* The payloads of the raw items the history API delivers in Spec.
Payloads ==
    { None,
      Some(JsonObject(Nested(Some("ALARM")), Nested(Some("OK")), None, None, None)),
      Some(JsonObject(Nested(Some("OK")), Nested(Some("ALARM")), None, None, None)) }

\* The raw items the API may deliver for StartDate = ws, EndDate = we: items
\* of the window, and an item without a timestamp.
RawItems(ws, we) ==
    {[Timestamp |-> Some(t), HistoryData |-> hd] :
         t \in {u \in Times : ws <= u /\ u <= we}, hd \in Payloads}
    \cup {[Timestamp |-> None, HistoryData |-> None]}

\* utc_now() falls on one of the two last instants of the grid.
NowChoices == {MaxTick * GridStep, (MaxTick - 1) * GridStep}

\* args.days: one or two lookbacks.
DaysLists ==
    {<<n>> : n \in 0..MaxLookback}
    \cup {<<n, m>> : n \in 0..MaxLookback, m \in 0..MaxLookback}

-----------------------------------------------------------------------------
(* SpecBuild: build_alarm_episodes(events, window_start, window_end,       *)
(* assume_state_before_window), from the first iteration of its loop.      *)

\* retryable_call is not running.
NotInRetry ==
    /\ max_attempts = 0 /\ attempt = 0 /\ fn_calls = <<>>
    /\ outcome = <<>> /\ slept = <<>>

NotInMain ==
    /\ now = 0 /\ days = <<>> /\ n_idx = 0
    /\ next_token = None /\ delivered = <<>> /\ sections_out = <<>>
    /\ history = <<>> /\ NotInRetry

InitBuild ==
    /\ pc = "scan"
    /\ events \in EventLists
    /\ window_start \in Times /\ window_end \in Times
    /\ window_start <= window_end
    /\ assume_state_before_window \in AssumedStates
    /\ idx = 1
    /\ current_state = assume_state_before_window
    /\ current_alarm_start = None
    /\ episodes = <<>>
    /\ clipped = <<>>
    /\ start_day = 0 /\ end_day = 0 /\ per_day = <<>> /\ rows = <<>>
    /\ NotInMain

\* Mutant: the loop consumes the list it is given (events.pop(0)).
ScanEvent_Drain ==
    /\ pc = "scan"
    /\ idx <= Len(events)
    /\ LET st == ScanStep([current_state |-> current_state,
                           current_alarm_start |-> current_alarm_start,
                           episodes |-> episodes], events[idx])
       IN  /\ current_state' = st.current_state
           /\ current_alarm_start' = st.current_alarm_start
           /\ episodes' = st.episodes
    /\ events' = Tail(events)
    /\ UNCHANGED <<history, retry_vars, pc, now, days, n_idx, window_start, window_end, start_day,
                   end_day, next_token, delivered, idx,
                   assume_state_before_window, clipped, per_day, rows,
                   sections_out>>

\* One iteration of `for ev in events`.
ScanEvent ==
    /\ pc = "scan"
    /\ idx <= Len(events)
    /\ LET st == ScanStep([current_state |-> current_state,
                           current_alarm_start |-> current_alarm_start,
                           episodes |-> episodes], events[idx])
       IN  /\ current_state' = st.current_state
           /\ current_alarm_start' = st.current_alarm_start
           /\ episodes' = st.episodes
    /\ idx' = idx + 1
    /\ UNCHANGED <<history, retry_vars, pc, now, days, n_idx, window_start, window_end, start_day,
                   end_day, next_token, delivered, events,
                   assume_state_before_window, clipped, per_day, rows,
                   sections_out>>

\* The loop is over: "If still ALARM at window_end, close it at window_end".
CloseOpen ==
    /\ pc = "scan"
    /\ idx > Len(events)
    /\ episodes' = CloseOpenEpisode([current_state |-> current_state,
                                     current_alarm_start |-> current_alarm_start,
                                     episodes |-> episodes], window_end)
    /\ pc' = "clip"
    /\ UNCHANGED <<history, retry_vars, now, days, n_idx, window_start, window_end, start_day,
                   end_day, next_token, delivered, events,
                   assume_state_before_window, idx, current_state,
                   current_alarm_start, clipped, per_day, rows, sections_out>>

\* "Clip to window (defensive)" and return.
Clip ==
    /\ pc = "clip"
    /\ clipped' = ClipEpisodes(episodes, window_start, window_end)
    /\ pc' = "built"
    /\ UNCHANGED <<history, retry_vars, now, days, n_idx, window_start, window_end, start_day,
                   end_day, next_token, delivered, events,
                   assume_state_before_window, idx, current_state,
                   current_alarm_start, episodes, per_day, rows, sections_out>>

NextBuild == ScanEvent \/ CloseOpen \/ Clip

SpecBuild == InitBuild /\ [][NextBuild]_vars

-----------------------------------------------------------------------------
(* SpecStats: episodes_to_daily_stats(episodes, start_day, end_day); its   *)
(* parameter episodes is the variable clipped, as in main.                 *)

InitStats ==
    /\ pc = "stats"
    /\ clipped \in EpisodeLists
    /\ start_day \in Days /\ end_day \in Days
    /\ start_day <= end_day
    /\ per_day = <<>> /\ rows = <<>> /\ idx = 0
    /\ events = <<>> /\ episodes = <<>>
    /\ window_start = 0 /\ window_end = 0
    /\ assume_state_before_window = None
    /\ current_state = None /\ current_alarm_start = None
    /\ NotInMain

\* per_day = {d: [] for d in daterange(start_day, end_day)}
StatsStart ==
    /\ pc = "stats"
    /\ per_day' = PerDayInit(start_day, end_day)
    /\ idx' = 1
    /\ pc' = "bucket"
    /\ UNCHANGED <<history, retry_vars, now, days, n_idx, window_start, window_end, start_day,
                   end_day, next_token, delivered, events,
                   assume_state_before_window, current_state,
                   current_alarm_start, episodes, clipped, rows, sections_out>>

\* One iteration of `for ep in episodes`.
BucketEpisode ==
    /\ pc = "bucket"
    /\ idx <= Len(clipped)
    /\ per_day' = BucketStep(per_day, clipped[idx], start_day, end_day)
    /\ idx' = idx + 1
    /\ UNCHANGED <<history, retry_vars, pc, now, days, n_idx, window_start, window_end, start_day,
                   end_day, next_token, delivered, events,
                   assume_state_before_window, current_state,
                   current_alarm_start, episodes, clipped, rows, sections_out>>

\* The loop over the days that builds the rows, and the return.
MakeRows ==
    /\ pc = "bucket"
    /\ idx > Len(clipped)
    /\ rows' = BuildRows(per_day, start_day, end_day)
    /\ pc' = "reported"
    /\ UNCHANGED <<history, retry_vars, now, days, n_idx, window_start, window_end, start_day,
                   end_day, next_token, delivered, events,
                   assume_state_before_window, idx, current_state,
                   current_alarm_start, episodes, clipped, per_day,
                   sections_out>>

NextStats == StatsStart \/ BucketEpisode \/ MakeRows

SpecStats == InitStats /\ [][NextStats]_vars

-----------------------------------------------------------------------------
(* Spec: main.  One window after the other: the paginated fetch, then      *)
(* build_alarm_episodes and episodes_to_daily_stats on what it returned.   *)

\* The value cw.describe_alarm_history gives for NextToken.
Tokens == {None, Some("token")}

Init ==
    /\ pc = "main_loop"
    /\ history = <<>> /\ NotInRetry
    /\ now \in NowChoices
    /\ days \in DaysLists
    /\ n_idx = 1
    /\ sections_out = <<>>
    /\ window_start = 0 /\ window_end = 0 /\ start_day = 0 /\ end_day = 0
    /\ next_token = None /\ delivered = <<>> /\ events = <<>>
    /\ assume_state_before_window = None
    /\ idx = 0 /\ current_state = None /\ current_alarm_start = None
    /\ episodes = <<>> /\ clipped = <<>> /\ per_day = <<>> /\ rows = <<>>

\* Mutant: the event list is created once, before the loop over the
\* windows, and every fetch appends to it.
MainStartWindow_SharedEvents ==
    /\ pc = "main_loop"
    /\ n_idx <= Len(days)
    /\ window_start' = now - days[n_idx] * SecondsPerDay
    /\ window_end' = now
    /\ start_day' = DateOf(now - days[n_idx] * SecondsPerDay)
    /\ end_day' = DateOf(now)
    /\ next_token' = None
    /\ delivered' = <<>>
    /\ pc' = "fetch"
    /\ UNCHANGED <<history, retry_vars, now, days, n_idx, events, assume_state_before_window, idx,
                   current_state, current_alarm_start, episodes, clipped,
                   per_day, rows, sections_out>>

\* The head of an iteration of `for n_days in args.days`, up to the first
\* request of fetch_alarm_state_updates.
MainStartWindow ==
    /\ pc = "main_loop"
    /\ n_idx <= Len(days)
    /\ window_start' = now - days[n_idx] * SecondsPerDay
    /\ window_end' = now
    /\ start_day' = DateOf(now - days[n_idx] * SecondsPerDay)
    /\ end_day' = DateOf(now)
    /\ events' = <<>>
    /\ next_token' = None
    /\ delivered' = <<>>
    /\ pc' = "fetch"
    /\ UNCHANGED <<history, retry_vars, now, days, n_idx, assume_state_before_window, idx,
                   current_state, current_alarm_start, episodes, clipped,
                   per_day, rows, sections_out>>

\* Mutant: the loop ends after the first response, token or not.
FetchPage_OnePage ==
    /\ pc = "fetch"
    /\ \E items \in SeqsUpTo(RawItems(window_start, window_end),
                             MaxItems - Len(delivered)),
          tok \in Tokens :
          /\ delivered' = delivered \o items
          /\ next_token' = tok
          /\ IF TRUE
             THEN /\ events' = SortByTs(events \o ParseItems(items))
                  /\ pc' = "fetched"
             ELSE /\ events' = events \o ParseItems(items)
                  /\ pc' = "fetch"
    /\ UNCHANGED <<history, retry_vars, now, days, n_idx, window_start, window_end, start_day,
                   end_day, assume_state_before_window, idx, current_state,
                   current_alarm_start, episodes, clipped, per_day, rows,
                   sections_out>>

\* One iteration of the `while True` of fetch_alarm_state_updates: the API
\* answers with a page of items and a token or none; without a token the
\* loop ends, the events are sorted and returned.
FetchPage ==
    /\ pc = "fetch"
    /\ \E items \in SeqsUpTo(RawItems(window_start, window_end),
                             MaxItems - Len(delivered)),
          tok \in Tokens :
          /\ delivered' = delivered \o items
          /\ next_token' = tok
          /\ IF Falsy(tok)
             THEN /\ events' = SortByTs(events \o ParseItems(items))
                  /\ pc' = "fetched"
             ELSE /\ events' = events \o ParseItems(items)
                  /\ pc' = "fetch"
    /\ UNCHANGED <<history, retry_vars, now, days, n_idx, window_start, window_end, start_day,
                   end_day, assume_state_before_window, idx, current_state,
                   current_alarm_start, episodes, clipped, per_day, rows,
                   sections_out>>

\* cw.describe_alarm_history raises: neither fetch_alarm_state_updates nor
\* main catches it, and main ends there.
FetchRaise ==
    /\ pc = "fetch"
    /\ pc' = "raised"
    /\ UNCHANGED <<history, retry_vars, now, days, n_idx, window_start, window_end, start_day,
                   end_day, next_token, delivered, events,
                   assume_state_before_window, idx, current_state,
                   current_alarm_start, episodes, clipped, per_day, rows,
                   sections_out>>

\* The rest of the iteration: build_alarm_episodes, episodes_to_daily_stats,
\* print_section, sections_out.append.
MainFinishWindow ==
    /\ pc = "fetched"
    /\ LET st  == ScanAll(ScanInit(None), events)
           raw == CloseOpenEpisode(st, window_end)
           eps == ClipEpisodes(raw, window_start, window_end)
           pd  == BucketAll(PerDayInit(start_day, end_day), eps, start_day, end_day)
           rs  == BuildRows(pd, start_day, end_day)
       IN  /\ current_state' = st.current_state
           /\ current_alarm_start' = st.current_alarm_start
           /\ episodes' = raw
           /\ clipped' = eps
           /\ per_day' = pd
           /\ rows' = rs
           /\ sections_out' = Append(sections_out,
                                     [n_days |-> days[n_idx], rows |-> rs])
    /\ n_idx' = n_idx + 1
    /\ pc' = IF n_idx = Len(days) THEN "exit" ELSE "main_loop"
    /\ UNCHANGED <<history, retry_vars, now, days, window_start, window_end, start_day, end_day,
                   next_token, delivered, events, assume_state_before_window,
                   idx>>

Next == MainStartWindow \/ FetchPage \/ FetchRaise \/ MainFinishWindow

Spec == Init /\ [][Next]_vars

-----------------------------------------------------------------------------
(* The timeline of an event list, read off the list itself.                *)

SetMax(S) == CHOOSE x \in S : \A y \in S : y <= x
SetMin(S) == CHOOSE x \in S : \A y \in S : x <= y

\* The k-th smallest element of a set of numbers.
NthOf(S, k) == CHOOSE x \in S : Cardinality({y \in S : y <= x}) = k

IsAlarm(ev) == ev.new_state = Some("ALARM")
IsOther(ev) == ev.new_state # None /\ ev.new_state # Some("ALARM")

\* The last event before position i that has a new_state; 0 when none has.
PrevPresent(evs, i) ==
    LET S == {j \in 1..(i - 1) : evs[j].new_state # None}
    IN  IF S = {} THEN 0 ELSE SetMax(S)

\* The state the alarm is known to be in when event i is processed.
TrackedBefore(evs, i, assume) ==
    IF PrevPresent(evs, i) = 0 THEN assume
    ELSE evs[PrevPresent(evs, i)].new_state

\* Event i moves the alarm into ALARM; event i moves it out of ALARM.
Enters(evs, i, assume) ==
    IsAlarm(evs[i]) /\ TrackedBefore(evs, i, assume) # Some("ALARM")
Leaves(evs, i, assume) ==
    IsOther(evs[i]) /\ TrackedBefore(evs, i, assume) = Some("ALARM")

\* The last event before position i that moved the alarm into ALARM, or 0.
EntryBefore(evs, i, assume) ==
    LET S == {j \in 1..(i - 1) : Enters(evs, j, assume)}
    IN  IF S = {} THEN 0 ELSE SetMax(S)

\* The first event of the run of ALARM events that ends right before
\* position i (events without new_state do not interrupt a run), or 0.
RunStart(evs, i) ==
    LET S == {j \in 1..(i - 1) :
                 /\ IsAlarm(evs[j])
                 /\ \A k \in j..(i - 1) : ~IsOther(evs[k])}
    IN  IF S = {} THEN 0 ELSE SetMin(S)

\* This step is one iteration of the loop of build_alarm_episodes.
IsScanStep == pc = "scan" /\ idx <= Len(events) /\ idx' = idx + 1

-----------------------------------------------------------------------------
(* Claims about build_alarm_episodes, under SpecBuild.                     *)

\* C1: with no assumed pre-window state, the episodes closed so far by the
\* loop are, in order, one per event that has a non-ALARM new_state and is
\* processed in ALARM; each starts at the timestamp of the event that moved
\* the alarm into ALARM and ends at the closing event, which is the first
\* event after the entry that has a non-ALARM new_state.
C1_ClosedEpisodes ==
    (pc = "scan" /\ assume_state_before_window = None) =>
        LET L == {i \in 1..(idx - 1) : Leaves(events, i, None)}
        IN  /\ Len(episodes) = Cardinality(L)
            /\ \A k \in 1..Len(episodes) :
                   LET i == NthOf(L, k)
                       j == EntryBefore(events, i, None)
                   IN  /\ j # 0
                       /\ episodes[k] = AlarmEpisode(events[j].ts, events[i].ts)
                       /\ \A m \in (j + 1)..(i - 1) : ~IsOther(events[m])

C1_Witness ==
    /\ pc = "scan" /\ assume_state_before_window = None
    /\ idx = 4
    /\ IsAlarm(events[1]) /\ IsAlarm(events[2]) /\ IsOther(events[3])
    /\ events[1].ts < events[3].ts
    /\ episodes = <<AlarmEpisode(events[1].ts, events[3].ts)>>

HasNewState(ev) == ev.new_state # None

\* C4: an event without new_state changes neither current_state nor
\* current_alarm_start nor the episodes; and the call returns what it
\* returns for the list without those events.
C4_SkipUnparseable ==
    /\ [][(IsScanStep /\ events[idx].new_state = None) =>
            UNCHANGED <<history, retry_vars, current_state, current_alarm_start, episodes>>]_vars
    /\ [](pc = "built" =>
            clipped = BuildAlarmEpisodes(SelectSeq(events, HasNewState),
                                         window_start, window_end,
                                         assume_state_before_window))

C4_Witness ==
    /\ pc = "built"
    /\ Len(events) = 3
    /\ IsAlarm(events[1]) /\ events[2].new_state = None /\ IsOther(events[3])
    /\ events[1].ts < events[2].ts /\ events[2].ts < events[3].ts
    /\ clipped = <<AlarmEpisode(events[1].ts, events[3].ts)>>

\* C5: the returned list is, in order, the clips [max(start, window_start),
\* min(end, window_end)] of the reconstructed episodes whose clip has
\* end > start; every returned episode lies in the window and has a
\* positive length.
C5_WindowClipping ==
    pc = "built" =>
        LET clip(i) == AlarmEpisode(Max(episodes[i].start, window_start),
                                    Min(episodes[i].end, window_end))
            kept    == {i \in 1..Len(episodes) : clip(i).end > clip(i).start}
        IN  /\ Len(clipped) = Cardinality(kept)
            /\ \A k \in 1..Len(clipped) :
                   /\ clipped[k] = clip(NthOf(kept, k))
                   /\ window_start <= clipped[k].start
                   /\ clipped[k].start < clipped[k].end
                   /\ clipped[k].end <= window_end

C5_Witness ==
    /\ pc = "built"
    /\ Len(episodes) = 2 /\ Len(clipped) = 1
    /\ episodes[1].start < window_start
    /\ episodes[1].end > window_start /\ episodes[1].end < window_end
    /\ clipped[1] = AlarmEpisode(window_start, episodes[1].end)
    /\ episodes[2].start = window_end

-----------------------------------------------------------------------------
(* Claims about episodes_to_daily_stats, under SpecStats.                  *)

StartsInRange(ep) == start_day <= DateOf(ep.start) /\ DateOf(ep.start) <= end_day

\* The episodes of a list that start on day d, as positions of the list.
StartingOn(eps, d) == {k \in 1..Len(eps) : DateOf(eps[k].start) = d}

\* The seconds from start to end, summed over the positions K of a list.
RECURSIVE SecondsOf(_, _)
SecondsOf(eps, K) ==
    IF K = {} THEN 0
    ELSE LET k == SetMax(K)
         IN  (eps[k].end - eps[k].start) + SecondsOf(eps, K \ {k})

\* The list without its k-th element.
Without(s, k) == SubSeq(s, 1, k - 1) \o SubSeq(s, k + 1, Len(s))

\* C6: the call returns end_day - start_day + 1 rows, the days from
\* start_day to end_day in ascending order without gap or duplicate, and
\* the rows are those of the list without the episodes that start outside
\* the range.
C6_Completeness ==
    pc = "reported" =>
        /\ Len(rows) = end_day - start_day + 1
        /\ \A i \in 1..Len(rows) : rows[i].day = start_day + i - 1
        /\ rows = EpisodesToDailyStats(SelectSeq(clipped, StartsInRange),
                                       start_day, end_day)

C6_Witness ==
    /\ pc = "reported"
    /\ Len(rows) = 2
    /\ Len(clipped) = 2
    /\ ~StartsInRange(clipped[1]) /\ StartsInRange(clipped[2])
    /\ rows[1].count = 0 /\ rows[2].count = 1

\* C7: in every row the average is None exactly when the count is 0; with
\* a count of at least 1 it is the sum of the durations in minutes of the
\* episodes that start on the day, divided by the count; a day on which
\* exactly one episode starts has count 1 and that episode's duration.
C7_CountNone ==
    pc = "reported" =>
        \A i \in 1..Len(rows) :
            LET K == StartingOn(clipped, rows[i].day)
            IN  /\ (rows[i].avg = None) <=> (rows[i].count = 0)
                /\ rows[i].count >= 1 =>
                       rows[i].avg = Some(Frac(SecondsOf(clipped, K),
                                               SecondsPerMinute * rows[i].count))
                /\ Cardinality(K) = 1 =>
                       LET k == SetMax(K)
                       IN  /\ rows[i].count = 1
                           /\ rows[i].avg = Some(Frac(clipped[k].end - clipped[k].start,
                                                      SecondsPerMinute))

C7_Witness ==
    /\ pc = "reported"
    /\ Len(clipped) = 1
    /\ clipped[1].end - clipped[1].start = GridStep
    /\ Len(rows) = 2
    /\ rows[1] = [day |-> DateOf(clipped[1].start), count |-> 1,
                  avg |-> Some(Frac(GridStep, SecondsPerMinute))]
    /\ rows[2].count = 0 /\ rows[2].avg = None

\* The sum of the durations of a row, count times its average.
RowTotal(r) == IF r.count = 0 THEN Frac(0, 1) ELSE Frac(r.avg[1].n * r.count, r.avg[1].d)

\* C8: an episode that starts in the range adds 1 to the count of the day
\* it starts on and its whole duration to that day's total, and changes no
\* other row: the rows differ from the rows of the list without it in the
\* row of its start day alone, also when it ends on a later day.
C8_StartDayAttribution ==
    pc = "reported" =>
        /\ \A i \in 1..Len(rows) :
               rows[i].count = Cardinality(StartingOn(clipped, rows[i].day))
        /\ \A k \in 1..Len(clipped) :
               StartsInRange(clipped[k]) =>
                   LET rest == EpisodesToDailyStats(Without(clipped, k),
                                                    start_day, end_day)
                   IN  \A i \in 1..Len(rows) :
                           IF rows[i].day = DateOf(clipped[k].start)
                           THEN /\ rows[i].count = rest[i].count + 1
                                /\ RowTotal(rows[i]) =
                                       FracAdd(RowTotal(rest[i]),
                                               Frac(clipped[k].end - clipped[k].start,
                                                    SecondsPerMinute))
                           ELSE rows[i] = rest[i]

C8_Witness ==
    /\ pc = "reported"
    /\ Len(clipped) = 2
    /\ DateOf(clipped[1].start) = start_day
    /\ DateOf(clipped[1].end) = start_day + 1
    /\ DateOf(clipped[2].start) = start_day
    /\ end_day = start_day + 1
    /\ rows[1].count = 2 /\ rows[2].count = 0

-----------------------------------------------------------------------------
(* Claims about the pipeline of main, under Spec.                          *)

\* main has finished a window: events, clipped and rows are that window's.
WindowDone == pc \in {"main_loop", "exit"} /\ n_idx > 1

\* The rows main computes for the current window from the raw items `items`.
PipelineRows(items) ==
    EpisodesToDailyStats(
        BuildAlarmEpisodes(FetchResult(items), window_start, window_end, None),
        start_day, end_day)

Orderings(n) ==
    {f \in [1..n -> 1..n] : \A a, b \in 1..n : f[a] = f[b] => a = b}

\* The list s in the order given by the permutation f.
Reordered(s, f) == [i \in 1..Len(s) |-> s[f[i]]]

\* C9 (as claimed): the count of each day is the number of events of that
\* day that move the alarm into ALARM.
C9_CountIsTransitions ==
    WindowDone =>
        \A i \in 1..Len(rows) :
            rows[i].count =
                Cardinality({k \in 1..Len(events) :
                                /\ DateOf(events[k].ts) = rows[i].day
                                /\ Enters(events, k, None)})

\* C10 (as claimed): whatever the order in which the API delivers the raw
\* items of a window, the rows are the same.
C10_AnyOrder ==
    WindowDone =>
        \A f \in Orderings(Len(delivered)) :
            PipelineRows(Reordered(delivered, f)) = rows

\* The permutation keeps items of equal timestamp in their relative order.
KeepsTies(s, f) ==
    \A a, b \in 1..Len(s) :
        (/\ a < b
         /\ s[f[a]].Timestamp # None
         /\ s[f[a]].Timestamp = s[f[b]].Timestamp) => f[a] < f[b]

\* C10 (amended): the rows are the same for every order of delivery that
\* keeps the items of equal timestamp in the same relative order, hence for
\* every order when the timestamps are pairwise distinct.
C10_OrderUpToTies ==
    WindowDone =>
        \A f \in Orderings(Len(delivered)) :
            KeepsTies(delivered, f) =>
                PipelineRows(Reordered(delivered, f)) = rows

C10_Witness ==
    /\ WindowDone
    /\ Len(delivered) = 2
    /\ delivered[1].Timestamp # None /\ delivered[2].Timestamp # None
    /\ delivered[1].Timestamp[1] > delivered[2].Timestamp[1]
    /\ clipped = <<AlarmEpisode(delivered[2].Timestamp[1],
                                delivered[1].Timestamp[1])>>
    /\ \E i \in 1..Len(rows) : rows[i].count = 1

\* C11 (as claimed): when the fetch of a window has raised and windows
\* remain in --days, main goes on with them.
C11_FetchFailureIsolated ==
    (pc = "raised" /\ n_idx < Len(days)) => ENABLED Next

\* The rows of a lookback of n days at the instant t, computed from the raw
\* items returned for that window and from nothing else.
RowsOfWindow(t, n, items) ==
    EpisodesToDailyStats(
        BuildAlarmEpisodes(FetchResult(items), t - n * SecondsPerDay, t, None),
        DateOf(t - n * SecondsPerDay), DateOf(t))

\* C12: the section main appends for a window holds the rows determined by
\* its lookback, by now and by the items returned for it alone, whatever
\* windows came before it; and no later step changes a section already
\* appended.
C12_WindowIndependence ==
    /\ [](WindowDone =>
            /\ Len(sections_out) = n_idx - 1
            /\ sections_out[n_idx - 1] =
                   [n_days |-> days[n_idx - 1],
                    rows |-> RowsOfWindow(now, days[n_idx - 1], delivered)])
    /\ [][\A k \in 1..Len(sections_out) : sections_out'[k] = sections_out[k]]_vars

C12_Witness ==
    /\ WindowDone
    /\ n_idx = 3
    /\ days[1] = days[2]
    /\ \E i \in 1..Len(sections_out[1].rows) : sections_out[1].rows[i].count = 1
    /\ \A i \in 1..Len(sections_out[2].rows) : sections_out[2].rows[i].count = 0
    /\ Len(delivered) = 1
    /\ events # <<>>

-----------------------------------------------------------------------------
(* SpecPipeline: build_alarm_episodes and then episodes_to_daily_stats on  *)
(* the day range of the window, as main chains them (no assumed state),    *)
(* run a second time on the same event list, window and day range.  The    *)
(* results of the first run are kept in sections_out.                      *)

PipelineStates == {None, Some("ALARM"), Some("OK")}

PipelineEventLists ==
    {evs \in SeqsUpTo({AlarmEvent(t, ns, None) : t \in Times, ns \in PipelineStates},
                      MaxEvents) : Ascending(evs)}

InitPipeline ==
    /\ pc = "scan"
    /\ events \in PipelineEventLists
    /\ window_start \in Times /\ window_end \in Times
    /\ window_start <= window_end
    /\ assume_state_before_window = None
    /\ idx = 1
    /\ current_state = None
    /\ current_alarm_start = None
    /\ episodes = <<>>
    /\ clipped = <<>>
    /\ start_day = 0 /\ end_day = 0 /\ per_day = <<>> /\ rows = <<>>
    /\ NotInMain

\* build_alarm_episodes has returned; main calls episodes_to_daily_stats
\* with the days of the window's two ends.
ThenStats ==
    /\ pc = "built"
    /\ start_day' = DateOf(window_start)
    /\ end_day' = DateOf(window_end)
    /\ pc' = "stats"
    /\ UNCHANGED <<history, retry_vars, now, days, n_idx, window_start, window_end, next_token,
                   delivered, events, assume_state_before_window, idx,
                   current_state, current_alarm_start, episodes, clipped,
                   per_day, rows, sections_out>>

\* The second run: the caller keeps the first run's episodes and rows and
\* calls build_alarm_episodes again with the list and the window it still
\* holds; the locals of the two functions start afresh.
RunAgain ==
    /\ pc = "reported"
    /\ sections_out = <<>>
    /\ sections_out' = <<[episodes |-> clipped, rows |-> rows]>>
    /\ pc' = "scan"
    /\ idx' = 1
    /\ current_state' = assume_state_before_window
    /\ current_alarm_start' = None
    /\ episodes' = <<>>
    /\ clipped' = <<>>
    /\ per_day' = <<>>
    /\ rows' = <<>>
    /\ UNCHANGED <<history, retry_vars, now, days, n_idx, window_start, window_end, start_day,
                   end_day, next_token, delivered, events,
                   assume_state_before_window>>

NextPipeline == NextBuild \/ ThenStats \/ NextStats \/ RunAgain

SpecPipeline == InitPipeline /\ [][NextPipeline]_vars

\* C13: no step of build_alarm_episodes or episodes_to_daily_stats changes
\* the event list, no step of episodes_to_daily_stats changes the episode
\* list it was given, and the second run on the same events, window and
\* day range returns the episodes and the rows of the first.
C13_Idempotent ==
    /\ [][/\ events' = events
          /\ pc \in {"built", "stats", "bucket"} => clipped' = clipped]_vars
    /\ [](pc = "reported" /\ sections_out # <<>> =>
              sections_out[1] = [episodes |-> clipped, rows |-> rows])

C13_Witness ==
    /\ pc = "reported"
    /\ sections_out # <<>>
    /\ Len(events) >= 2
    /\ Len(clipped) >= 1
    /\ \E i \in 1..Len(rows) : rows[i].count >= 1

\* The episode, as the scan recorded it, has no instant inside the window:
\* it starts at or after window_end or ends at or before window_start.
OutsideWindow(ep) == ep.start >= window_end \/ ep.end <= window_start

InsideWindow(ep) == ~OutsideWindow(ep)

\* C14: the rows returned for a window are the rows of the episodes that
\* are not entirely outside it: an episode whose ALARM event is at or after
\* window_end, or whose closing event is at or before window_start, is not
\* among the episodes returned and changes no count and no average.
C14_ClippingDrop ==
    pc = "reported" =>
        /\ clipped = ClipEpisodes(SelectSeq(episodes, InsideWindow),
                                  window_start, window_end)
        /\ rows = EpisodesToDailyStats(
                      ClipEpisodes(SelectSeq(episodes, InsideWindow),
                                   window_start, window_end),
                      start_day, end_day)

C14_Witness ==
    /\ pc = "reported"
    /\ Len(episodes) = 2
    /\ episodes[1].start < episodes[1].end
    /\ episodes[1].end <= window_start
    /\ DateOf(episodes[1].start) = start_day
    /\ InsideWindow(episodes[2])
    /\ Len(clipped) = 1
    /\ rows[1].count + rows[Len(rows)].count = 1

-----------------------------------------------------------------------------
(* Claims about build_alarm_episodes with an assumed state, under          *)
(* SpecBuild.                                                              *)

\* Position k holds the first event of evs that has a new_state.
FirstPresent(evs, k) ==
    /\ k \in 1..Len(evs)
    /\ HasNewState(evs[k])
    /\ \A j \in 1..(k - 1) : ~HasNewState(evs[j])

\* C15 (as claimed): with assume_state_before_window = ALARM, when the first
\* event that has a new_state is not an ALARM event and lies at t with
\* window_start < t <= window_end, the result holds the episode
\* [window_start, t].
C15_AssumedAlarmEpisode ==
    (pc = "built" /\ assume_state_before_window = Some("ALARM")) =>
        \A k \in 1..Len(events) :
            (/\ FirstPresent(events, k)
             /\ IsOther(events[k])
             /\ window_start < events[k].ts
             /\ events[k].ts <= window_end)
            => \E j \in 1..Len(clipped) :
                   clipped[j] = AlarmEpisode(window_start, events[k].ts)

\* Present values of new_state that are not ALARM: the two other states of
\* the enumeration, a string outside it, and the empty string.
OtherValues == {"OK", "INSUFFICIENT_DATA", "UNKNOWN_STATE", ""}

\* evs with the new_state of every event that is not ALARM (and has one)
\* replaced by v.
AllOthersAs(evs, v) ==
    [i \in 1..Len(evs) |->
        IF IsOther(evs[i]) THEN AlarmEvent(evs[i].ts, Some(v), evs[i].old_state)
        ELSE evs[i]]

\* C16: replacing the new_state of an event that is not ALARM by any other
\* present value that is not ALARM, in one event or in all of them, leaves
\* the returned episodes as they are; in particular each such value closes
\* an open episode as OK does.
C16_OtherStatesInterchangeable ==
    pc = "built" =>
        \A v \in OtherValues :
            /\ BuildAlarmEpisodes(AllOthersAs(events, v), window_start,
                                  window_end, assume_state_before_window) = clipped
            /\ \A k \in 1..Len(events) :
                   IsOther(events[k]) =>
                       BuildAlarmEpisodes(
                           [events EXCEPT ![k] = AlarmEvent(events[k].ts, Some(v),
                                                            events[k].old_state)],
                           window_start, window_end,
                           assume_state_before_window) = clipped

C16_Witness ==
    /\ pc = "built"
    /\ Len(events) = 2
    /\ IsAlarm(events[1])
    /\ events[2].new_state = Some("INSUFFICIENT_DATA")
    /\ clipped = <<AlarmEpisode(events[1].ts, events[2].ts)>>
    /\ events[2].ts < window_end

-----------------------------------------------------------------------------
(* Claims about parse_history_event inside fetch_alarm_state_updates,      *)
(* under Spec.                                                             *)

\* The positions of the items fetched so far that have a Timestamp.
Timestamped(items) == {i \in 1..Len(items) : items[i].Timestamp # None}

\* C17: parse_history_event returns no event exactly for the items without
\* Timestamp; the event list of fetch_alarm_state_updates holds one event
\* per fetched item that has a Timestamp, at that item's timestamp, and
\* nothing else.
C17_NoTimestampDiscarded ==
    /\ \A i \in 1..Len(delivered) :
           (ParseHistoryEvent(delivered[i]) = None)
               <=> (delivered[i].Timestamp = None)
    /\ Len(events) = Cardinality(Timestamped(delivered))
    /\ \A k \in 1..Len(events) : events[k].ts \in Times
    /\ \A t \in Times :
           Cardinality({k \in 1..Len(events) : events[k].ts = t})
               = Cardinality({i \in Timestamped(delivered) :
                                 delivered[i].Timestamp = Some(t)})

C17_Witness ==
    /\ pc = "fetched"
    /\ Len(delivered) = 2
    /\ delivered[1].Timestamp = None
    /\ delivered[2].Timestamp # None
    /\ events = <<AlarmEvent(delivered[2].Timestamp[1], Some("ALARM"), Some("OK"))>>

-----------------------------------------------------------------------------
(* SpecParse: parse_history_event on one history item, as the loop of      *)
(* fetch_alarm_state_updates calls it.                                     *)

\* String values of the state keys of a payload.
StateStrings == {"ALARM", "OK", ""}

\* data.get("newState") / data.get("oldState"): absent, no object, an
\* object without stateValue, an object with a stateValue.
NestedChoices ==
    {None, NotAnObject, Nested(None)} \cup {Nested(Some(v)) : v \in StateStrings}

\* data.get("newStateValue") and the other flat keys: absent or a string.
FlatChoices == {None} \cup {Some(v) : v \in StateStrings}

\* HistoryData: missing, the empty string, text json.loads rejects, JSON
\* that is no object (an array), or an object with any of the five keys.
ParsePayloads ==
    {None, Some(JsonOther("empty")), Some(JsonOther("invalid")),
     Some(JsonOther("array"))}
    \cup {Some(JsonObject(ns, os, nsv, sv, osv)) :
             ns \in NestedChoices, os \in NestedChoices,
             nsv \in FlatChoices, sv \in FlatChoices, osv \in FlatChoices}

ParseItemChoices ==
    {[Timestamp |-> ts, HistoryData |-> hd] :
         ts \in {None} \cup {Some(t) : t \in Times}, hd \in ParsePayloads}

InitParse ==
    /\ pc = "parse"
    /\ history = <<>> /\ NotInRetry
    /\ \E it \in ParseItemChoices : delivered = <<it>>
    /\ events = <<>>
    /\ now = 0 /\ days = <<>> /\ n_idx = 0
    /\ next_token = None /\ sections_out = <<>>
    /\ window_start = 0 /\ window_end = 0
    /\ start_day = 0 /\ end_day = 0
    /\ assume_state_before_window = None
    /\ idx = 0
    /\ current_state = None /\ current_alarm_start = None
    /\ episodes = <<>> /\ clipped = <<>>
    /\ per_day = <<>> /\ rows = <<>>

\* ev = parse_history_event(it); if ev: events.append(ev)
ParseOne ==
    /\ pc = "parse"
    /\ events' = events \o ParseItems(delivered)
    /\ pc' = "parsed"
    /\ UNCHANGED <<history, retry_vars, now, days, n_idx, window_start, window_end, start_day,
                   end_day, next_token, delivered,
                   assume_state_before_window, idx, current_state,
                   current_alarm_start, episodes, clipped, per_day, rows,
                   sections_out>>

NextParse == ParseOne

SpecParse == InitParse /\ [][NextParse]_vars

\* The payload is missing, empty, not decodable, or decodes to no object.
Malformed(hd) == hd = None \/ hd[1].text # "object"

\* C18: an item with a Timestamp whose HistoryData is missing, empty, not
\* decodable as JSON or no JSON object yields exactly one event, at the
\* item's timestamp, with new_state and old_state absent.
C18_MalformedDegrades ==
    (/\ pc = "parsed"
     /\ delivered[1].Timestamp # None
     /\ Malformed(delivered[1].HistoryData))
    => events = <<AlarmEvent(delivered[1].Timestamp[1], None, None)>>

C18_Witness ==
    /\ pc = "parsed"
    /\ delivered[1].Timestamp = Some(GridStep)
    /\ delivered[1].HistoryData = Some(JsonOther("invalid"))
    /\ events = <<AlarmEvent(GridStep, None, None)>>

\* The stateValue of a nested newState / oldState; None when the key is
\* absent, is no object, or has no stateValue.
NestedValue(x) == IF x # None /\ x[1].is_dict THEN x[1].stateValue ELSE None

\* The item has a Timestamp and a payload that is a JSON object.
ParsedObject ==
    /\ pc = "parsed"
    /\ delivered[1].Timestamp # None
    /\ ~Malformed(delivered[1].HistoryData)

\* C19 (as claimed): new_state is the nested newState.stateValue when
\* present, otherwise newStateValue when present, otherwise stateValue;
\* old_state is the nested oldState.stateValue when present, otherwise
\* oldStateValue.
C19_PresentKeyWins ==
    ParsedObject =>
        LET data == delivered[1].HistoryData[1]
        IN  /\ Len(events) = 1
            /\ events[1].new_state =
                   IF NestedValue(data.newState) # None
                   THEN NestedValue(data.newState)
                   ELSE IF data.newStateValue # None THEN data.newStateValue
                   ELSE data.stateValue
            /\ events[1].old_state =
                   IF NestedValue(data.oldState) # None
                   THEN NestedValue(data.oldState)
                   ELSE data.oldStateValue

\* C19 (amended): new_state is the nested newState.stateValue when present,
\* otherwise newStateValue when present and not the empty string, otherwise
\* stateValue; old_state is the nested oldState.stateValue when present,
\* otherwise oldStateValue.
C19_TwoShapes ==
    ParsedObject =>
        LET data == delivered[1].HistoryData[1]
        IN  /\ Len(events) = 1
            /\ events[1].ts = delivered[1].Timestamp[1]
            /\ events[1].new_state =
                   IF NestedValue(data.newState) # None
                   THEN NestedValue(data.newState)
                   ELSE IF data.newStateValue \notin {None, Some("")}
                   THEN data.newStateValue
                   ELSE data.stateValue
            /\ events[1].old_state =
                   IF NestedValue(data.oldState) # None
                   THEN NestedValue(data.oldState)
                   ELSE data.oldStateValue

C19_Witness ==
    /\ ParsedObject
    /\ delivered[1].HistoryData[1].newState = Nested(Some("ALARM"))
    /\ delivered[1].HistoryData[1].newStateValue = Some("OK")
    /\ delivered[1].HistoryData[1].oldState = Nested(Some("OK"))
    /\ delivered[1].HistoryData[1].oldStateValue = Some("ALARM")
    /\ events[1].new_state = Some("ALARM")
    /\ events[1].old_state = Some("OK")

-----------------------------------------------------------------------------
(* Claims about the order of the events given to build_alarm_episodes,     *)
(* under SpecPipeline.                                                     *)

\* No two events of evs have the same timestamp.
DistinctTs(evs) ==
    \A i, j \in 1..Len(evs) : i # j => evs[i].ts # evs[j].ts

\* C20 (as claimed): build_alarm_episodes returns for every permutation of
\* events of pairwise distinct timestamps the episodes it returns for them
\* in ascending order.
C20_BuilderSorts ==
    (pc = "built" /\ DistinctTs(events)) =>
        \A f \in Orderings(Len(events)) :
            BuildAlarmEpisodes(Reordered(events, f), window_start, window_end,
                               assume_state_before_window) = clipped

\* C20 (amended): build_alarm_episodes scans the list in the order given;
\* every permutation of events of pairwise distinct timestamps, once sorted
\* by timestamp as fetch_alarm_state_updates sorts its result, gives the
\* episodes returned for the ascending list.
C20_SortedThenBuilt ==
    (pc = "built" /\ DistinctTs(events)) =>
        \A f \in Orderings(Len(events)) :
            /\ SortByTs(Reordered(events, f)) = events
            /\ BuildAlarmEpisodes(SortByTs(Reordered(events, f)), window_start,
                                  window_end, assume_state_before_window) = clipped

C20_Witness ==
    /\ pc = "built"
    /\ Len(events) = 3
    /\ DistinctTs(events)
    /\ IsAlarm(events[1]) /\ IsOther(events[2]) /\ IsAlarm(events[3])
    /\ Len(clipped) = 2
    /\ \E f \in Orderings(3) :
           BuildAlarmEpisodes(Reordered(events, f), window_start, window_end,
                              assume_state_before_window) # clipped

-----------------------------------------------------------------------------
(* Claims about the list build_alarm_episodes returns, under SpecPipeline. *)

\* The instant t is the timestamp of an event that moves the alarm out of
\* ALARM.
ClosedByEvent(t) ==
    \E k \in 1..Len(events) :
        Leaves(events, k, assume_state_before_window) /\ events[k].ts = t

\* C21: the episodes returned are in ascending start order and do not
\* overlap (each ends no later than the next starts), and every episode
\* but the last was closed by an event: only the last can be the one the
\* termination step closes at window_end.
C21_OrderedDisjoint ==
    pc = "built" =>
        /\ \A j \in 1..(Len(clipped) - 1) :
               /\ clipped[j].start <= clipped[j + 1].start
               /\ clipped[j].end <= clipped[j + 1].start
               /\ ClosedByEvent(clipped[j].end)
        /\ \A j \in 1..(Len(episodes) - 1) :
               /\ episodes[j].end <= episodes[j + 1].start
               /\ ClosedByEvent(episodes[j].end)

C21_Witness ==
    /\ pc = "built"
    /\ Len(clipped) = 2
    /\ clipped[1].end < clipped[2].start
    /\ clipped[2].end = window_end
    /\ ~ClosedByEvent(window_end)
    /\ current_state = Some("ALARM") /\ current_alarm_start # None

-----------------------------------------------------------------------------
(* SpecWindows: main over two lookbacks of at least one day against one    *)
(* alarm history: every fetch returns, in the order of the history, the    *)
(* records whose timestamp lies in [window_start, window_end].             *)

\* utc_now() falls half a grid step after the last instant of the grid, so
\* that the day of now holds an earlier instant.
NowAfterGrid == MaxTick * GridStep + GridStep \div 2

\* args.days: two lookbacks of one day or more.
LongDaysLists ==
    {<<n, m>> : n \in 1..(MaxLookback + 1), m \in 1..(MaxLookback + 1)}

\* The alarm's StateUpdate records, in the order the API lists them.
HistoryLists ==
    SeqsUpTo({[Timestamp |-> Some(t), HistoryData |-> hd] :
                 t \in Times, hd \in Payloads}, MaxItems)

InitWindows ==
    /\ pc = "main_loop"
    /\ now = NowAfterGrid
    /\ days \in LongDaysLists
    /\ history \in HistoryLists
    /\ NotInRetry
    /\ n_idx = 1
    /\ sections_out = <<>>
    /\ window_start = 0 /\ window_end = 0 /\ start_day = 0 /\ end_day = 0
    /\ next_token = None /\ delivered = <<>> /\ events = <<>>
    /\ assume_state_before_window = None
    /\ idx = 0 /\ current_state = None /\ current_alarm_start = None
    /\ episodes = <<>> /\ clipped = <<>> /\ per_day = <<>> /\ rows = <<>>

\* The record lies in the window of the request (StartDate, EndDate).
InRequestedWindow(item) ==
    /\ window_start <= item.Timestamp[1]
    /\ item.Timestamp[1] <= window_end

\* fetch_alarm_state_updates against the history: the API answers with the
\* records of the window and no token; the events are parsed and sorted.
FetchFromHistory ==
    /\ pc = "fetch"
    /\ delivered' = SelectSeq(history, InRequestedWindow)
    /\ next_token' = None
    /\ events' = SortByTs(events \o ParseItems(SelectSeq(history, InRequestedWindow)))
    /\ pc' = "fetched"
    /\ UNCHANGED <<history, retry_vars, now, days, n_idx, window_start,
                   window_end, start_day, end_day,
                   assume_state_before_window, idx, current_state,
                   current_alarm_start, episodes, clipped, per_day, rows,
                   sections_out>>

NextWindows == MainStartWindow \/ FetchFromHistory \/ MainFinishWindow

SpecWindows == InitWindows /\ [][NextWindows]_vars

\* The row of the calendar day of now.
TodayRow(rs) == rs[CHOOSE i \in 1..Len(rs) : rs[i].day = DateOf(now)]

\* main has reported both windows.
BothReported == pc = "exit" /\ Len(sections_out) = 2

\* C22 (as claimed): the row of the day of now has the same count and the
\* same average in the sections of both lookbacks.
C22_MostRecentDayAgrees ==
    BothReported =>
        TodayRow(sections_out[1].rows) = TodayRow(sections_out[2].rows)

\* Every ALARM record of the history is a transition into ALARM: the
\* record with a new_state before it, if any, is not an ALARM record.
AlarmRecordsAreEntries ==
    LET evs == FetchResult(history)
    IN  \A i \in 1..Len(evs) : IsAlarm(evs[i]) => Enters(evs, i, None)

\* C22 (amended): when every ALARM record of the history is a transition
\* into ALARM, the row of the day of now has the same count and the same
\* average in the sections of both lookbacks.
C22_AgreesOnTransitions ==
    (BothReported /\ AlarmRecordsAreEntries) =>
        TodayRow(sections_out[1].rows) = TodayRow(sections_out[2].rows)

C22_Witness ==
    /\ BothReported
    /\ AlarmRecordsAreEntries
    /\ days[1] # days[2]
    /\ Len(history) = 2
    /\ history[1].Timestamp[1] < now - SecondsPerDay
    /\ DateOf(history[2].Timestamp[1]) = DateOf(now)
    /\ TodayRow(sections_out[1].rows).count = 1
    /\ TodayRow(sections_out[2].rows).count = 1

-----------------------------------------------------------------------------
(* Claims about the order of the fetched events, under Spec.               *)

\* The events of evs at the instant t, in list order.
EventsAt(evs, t) ==
    LET At(e) == e.ts = t
    IN  SelectSeq(evs, At)

\* The items of the list with Timestamp t, in list order.
ItemsAt(items, t) ==
    LET At(it) == it.Timestamp = Some(t)
    IN  SelectSeq(items, At)

\* fetch_alarm_state_updates has returned for the current window.
Fetched == pc = "fetched" \/ WindowDone

\* C23: the list fetch_alarm_state_updates returns is ascending by
\* timestamp and holds the events of equal timestamp in the order in which
\* their items were received, page by page and item by item; the scan
\* applies them in that order, so the state it ends in is the new_state of
\* the last event of the list that has one.
C23_TiesKeepInputOrder ==
    /\ Fetched =>
           /\ Ascending(events)
           /\ \A t \in Times :
                  EventsAt(events, t) = ParseItems(ItemsAt(delivered, t))
    /\ WindowDone =>
           current_state = TrackedBefore(events, Len(events) + 1, None)

C23_Witness ==
    /\ WindowDone
    /\ Len(delivered) = 2
    /\ delivered[1].Timestamp = delivered[2].Timestamp
    /\ Len(events) = 2
    /\ IsAlarm(events[1]) /\ IsOther(events[2])
    /\ events[1].ts < window_end
    /\ current_state = Some("OK")
    /\ clipped = <<>>

\* C24: while a response carries a NextToken the loop stays in the fetch
\* and keeps the events of all pages received so far, in order of arrival;
\* the first response without a token ends it, and the list returned then
\* holds the events of every page, each once, ascending by timestamp.  The
\* fetch returns only after a response without a token.
C24_Pagination ==
    /\ [][(pc = "fetch" /\ pc' # "raised") =>
             IF Falsy(next_token')
             THEN /\ pc' = "fetched"
                  /\ events' = SortByTs(ParseItems(delivered'))
             ELSE /\ pc' = "fetch"
                  /\ events' = ParseItems(delivered')]_vars
    /\ [](pc = "fetched" =>
             /\ Falsy(next_token)
             /\ Ascending(events)
             /\ Len(events) = Cardinality(Timestamped(delivered))
             /\ events = SortByTs(ParseItems(delivered)))

C24_Witness ==
    /\ pc = "fetch"
    /\ next_token = Some("token")
    /\ Len(delivered) = 2
    /\ Len(events) = 2
    /\ events[1].ts > events[2].ts
    /\ ENABLED FetchPage

-----------------------------------------------------------------------------
(* SpecRetry: retryable_call(fn, max_attempts) of costanalysis/dms/dms.py, *)
(* with the default base_sleep.  fn returns or raises as it likes at       *)
(* every call.                                                             *)

\* The substrings that mark an error as transient.
TransientMarkers ==
    {"Throttling", "Rate exceeded", "TooManyRequestsException",
     "RequestLimitExceeded", "ServiceUnavailable", "InternalError"}

\* str(e), as the list of the fragments it is made of: messages that hold
\* one of the markers, and two that hold none (the test is case-sensitive).
ErrorMessages ==
    {<<"An error occurred: ", x>> : x \in TransientMarkers}
    \cup {<<"An error occurred: ", "AccessDeniedException">>,
          <<"An error occurred: ", "throttling">>}

\* any(x in msg for x in [...])
Transient(msg) == \E i \in 1..Len(msg) : msg[i] \in TransientMarkers

\* What one call of fn does: it returns a value or raises an exception.
FnReturns(v) == [ok |-> TRUE, value |-> v, msg |-> <<>>]
FnRaises(m) == [ok |-> FALSE, value |-> None, msg |-> m]
FnOutcomes == {FnReturns(Some("response"))} \cup {FnRaises(m) : m \in ErrorMessages}

RECURSIVE Pow2(_)
Pow2(n) == IF n <= 0 THEN 1 ELSE 2 * Pow2(n - 1)

\* base_sleep, 0.4 seconds, and sleep_s = base_sleep * (2 ** (attempt - 1)).
BaseSleep == Frac(2, 5)
SleepOf(a) == Frac(BaseSleep.n * Pow2(a - 1), BaseSleep.d)

\* Mutant: attempt > max_attempts where the code has >=.
GivesUp_OneMore(transient, a, m) == (~transient) \/ a > m

\* if (not transient) or attempt >= max_attempts: raise
GivesUp(transient, a, m) == (~transient) \/ a >= m

InitRetry ==
    /\ pc = "retry"
    /\ max_attempts \in 0..MaxAttempts
    /\ attempt = 0
    /\ fn_calls = <<>>
    /\ outcome = None
    /\ slept = <<>>
    /\ history = <<>>
    /\ now = 0 /\ days = <<>> /\ n_idx = 0
    /\ next_token = None /\ delivered = <<>> /\ sections_out = <<>>
    /\ events = <<>>
    /\ window_start = 0 /\ window_end = 0
    /\ start_day = 0 /\ end_day = 0
    /\ assume_state_before_window = None
    /\ idx = 0
    /\ current_state = None /\ current_alarm_start = None
    /\ episodes = <<>> /\ clipped = <<>>
    /\ per_day = <<>> /\ rows = <<>>

\* One iteration of `while True`: attempt += 1, the call of fn, and what
\* follows it: the return, the raise, or the sleep before the next call.
RetryAttempt ==
    /\ pc = "retry"
    /\ \E res \in FnOutcomes :
          /\ attempt' = attempt + 1
          /\ fn_calls' = Append(fn_calls, res)
          /\ IF res.ok
             THEN /\ outcome' = Some([kind |-> "returned", value |-> res.value])
                  /\ pc' = "retry_returned"
                  /\ slept' = slept
             ELSE IF GivesUp(Transient(res.msg), attempt + 1, max_attempts)
             THEN /\ outcome' = Some([kind |-> "raised", value |-> Some(res.msg)])
                  /\ pc' = "retry_raised"
                  /\ slept' = slept
             ELSE /\ outcome' = outcome
                  /\ pc' = "retry"
                  /\ slept' = Append(slept, SleepOf(attempt + 1))
    /\ UNCHANGED <<max_attempts, history, now, days, n_idx, window_start,
                   window_end, start_day, end_day, next_token, delivered,
                   events, assume_state_before_window, idx, current_state,
                   current_alarm_start, episodes, clipped, per_day, rows,
                   sections_out>>

NextRetry == RetryAttempt

SpecRetry == InitRetry /\ [][NextRetry]_vars

\* The k-th call of fn failed with a transient error.
FailedTransient(k) == ~fn_calls[k].ok /\ Transient(fn_calls[k].msg)

\* What the claim says apart from the number of calls: the value returned
\* is that of the first call of fn that succeeds, which is the last call
\* made; every call but the last failed with a transient error; a sleep of
\* base_sleep * 2^(k-1) follows the k-th failed call that is retried; the
\* error raised is that of the last call.
RetryDiscipline ==
    /\ attempt = Len(fn_calls)
    /\ \A k \in 1..(Len(fn_calls) - 1) : FailedTransient(k) /\ k < max_attempts
    /\ slept = [k \in 1..(Len(fn_calls) - (IF pc = "retry" THEN 0 ELSE 1))
                   |-> SleepOf(k)]
    /\ pc = "retry" => outcome = None /\ \A k \in 1..Len(fn_calls) : FailedTransient(k)
    /\ pc = "retry_returned" =>
           /\ fn_calls[Len(fn_calls)].ok
           /\ outcome = Some([kind |-> "returned",
                              value |-> fn_calls[Len(fn_calls)].value])
    /\ pc = "retry_raised" =>
           /\ ~fn_calls[Len(fn_calls)].ok
           /\ outcome = Some([kind |-> "raised",
                              value |-> Some(fn_calls[Len(fn_calls)].msg)])
           /\ (~Transient(fn_calls[Len(fn_calls)].msg)
                  \/ Len(fn_calls) >= max_attempts)
    /\ (/\ Len(fn_calls) >= 1
        /\ Len(fn_calls) = max_attempts
        /\ ~fn_calls[Len(fn_calls)].ok) => pc = "retry_raised"

C26_PreWindowAlarmNotCounted ==
    WindowDone =>
        \A k \in 1..Len(events) :
            (FirstPresent(events, k) /\ IsOther(events[k])) =>
                /\ \A j \in 1..Len(episodes) : episodes[j].start >= events[k].ts
                /\ \A j \in 1..Len(clipped) : clipped[j].start >= events[k].ts
                /\ BuildAlarmEpisodes(Without(events, k), window_start,
                                      window_end, None) = clipped
                /\ rows = EpisodesToDailyStats(
                              BuildAlarmEpisodes(Without(events, k), window_start,
                                                 window_end, None),
                              start_day, end_day)
                /\ Len(clipped) <= Cardinality({i \in (k + 1)..Len(events) :
                                                   Enters(events, i, None)})

C26_Witness ==
    /\ WindowDone
    /\ Len(events) = 1
    /\ IsOther(events[1])
    /\ window_start < events[1].ts
    /\ events[1].ts < window_end
    /\ clipped = <<>>
    /\ \A i \in 1..Len(rows) : rows[i].count = 0

-----------------------------------------------------------------------------
(* Claims about the rows of a window of main, under Spec.                  *)

\* The sum of the counts of a list of rows.
RECURSIVE SumCounts(_)
SumCounts(rs) ==
    IF rs = <<>> THEN 0 ELSE rs[1].count + SumCounts(Tail(rs))

\* C27: every episode build_alarm_episodes returns for a window starts in
\* [window_start, window_end), hence on a day of the range, and the counts
\* of the rows of the window add up to the number of those episodes.
C27_NoEpisodeLost ==
    WindowDone =>
        /\ \A j \in 1..Len(clipped) :
               /\ window_start <= clipped[j].start
               /\ clipped[j].start < window_end
               /\ StartsInRange(clipped[j])
        /\ SumCounts(rows) = Len(clipped)

C27_Witness ==
    /\ WindowDone
    /\ Len(rows) = 2
    /\ Len(clipped) = 1
    /\ DateOf(clipped[1].start) = start_day
    /\ DateOf(clipped[1].end) = end_day
    /\ rows[1].count = 1 /\ rows[2].count = 0

C29_RowCount ==
    WindowDone =>
        LET N == days[n_idx - 1]
        IN  /\ Len(rows) = N + 1
            /\ Len(sections_out[n_idx - 1].rows) = N + 1
            /\ \A i \in 1..Len(rows) : rows[i].day = DateOf(now) - N + i - 1

C29_Witness ==
    /\ WindowDone
    /\ days[n_idx - 1] = 1
    /\ now % SecondsPerDay # 0
    /\ Len(rows) = 2
    /\ rows[1].day = DateOf(now) - 1 /\ rows[2].day = DateOf(now)
    /\ events # <<>>

\* Values an old_state can take.
OldValues == {None, Some("ALARM"), Some("OK"), Some("INSUFFICIENT_DATA")}

\* evs with the old_state of the i-th event replaced by olds[i].
WithOldStates(evs, olds) ==
    [i \in 1..Len(evs) |-> AlarmEvent(evs[i].ts, evs[i].new_state, olds[i])]

\* C30: whatever old_state values the events carry, present, absent or
\* inconsistent with the event before, the episodes and the rows are those
\* of the events as fetched.
C30_OldStateIgnored ==
    WindowDone =>
        \A olds \in [1..Len(events) -> OldValues] :
            /\ BuildAlarmEpisodes(WithOldStates(events, olds), window_start,
                                  window_end, None) = clipped
            /\ EpisodesToDailyStats(
                   BuildAlarmEpisodes(WithOldStates(events, olds), window_start,
                                      window_end, None),
                   start_day, end_day) = rows

C30_Witness ==
    /\ WindowDone
    /\ Len(events) = 2
    /\ IsAlarm(events[1]) /\ events[1].old_state = Some("OK")
    /\ IsOther(events[2]) /\ events[2].old_state = Some("ALARM")
    /\ clipped = <<AlarmEpisode(events[1].ts, events[2].ts)>>
    /\ SumCounts(rows) = 1

====
